---- MODULE Spec2Model ----
(***************************************************************************)
(* tsl::uint_n<BITS_COUNT, UINT_TYPE> (include/tsl/uint_n.h): an N-bit     *)
(* unsigned integer stored in an array of W = ceil(N / S) words of S bits, *)
(* most significant word at index 0.                                       *)
(*                                                                         *)
(* A word of type UINT_TYPE is modelled by the set of its set bit          *)
(* positions, a subset of 0 .. S-1 (bit 0 is the least significant bit).   *)
(* The representation keeps the word's width exactly (a 64-bit word does   *)
(* not fit a TLC integer) and every word operator below is the C++         *)
(* operator on that representation, truncation to S bits included.         *)
(***************************************************************************)
EXTENDS Integers, FiniteSets, Sequences, TLC

VARIABLES
    S,            \* bits per word: sizeof(uint_type) * CHAR_BIT
    N,            \* BITS_COUNT
    bits,         \* storage_type bits: [0 .. W-1 -> word], index 0 most significant
    args,         \* the constructor's arguments, in the order they were written
    op,           \* the last member function called on the object
    arg,          \* its size_t argument (0 when it has none)
    rhs,          \* its uint_n argument (the object's own value when it has none)
    pre,          \* bits before the last call
    ret,          \* what the last call returned, when it returns something else than *this
    undo,         \* <<x0>> when the last two calls were set(p); unset(p) on value x0, else <<>>
    ref,          \* reference N-bit integer (set of set bit positions) run through the same calls
    steps         \* number of calls made since construction

vars == <<S, N, bits, args, op, arg, rhs, pre, ret, undo, ref, steps>>

----------------------------------------------------------------------------
(* Bounds of the exploration *)

MaxWords == 2      \* storage sizes W explored: 1 .. MaxWords
MaxOps == 2        \* calls made on one object

----------------------------------------------------------------------------
(* Words *)

\* UINT_TYPE instantiations explored: uint8_t (the tests) and uint64_t (the default)
WordTypes == {8, 64}

\* a type narrower than int is promoted to int before <<, >>, &, |, ~
PromotedToInt(s) == s < 32

\* what a build can produce for an unsigned >> by the full width of the operand:
\* zero, or the operand itself where the hardware masks the shift count
UBOutcomes == {"zero", "masked"}

AllOnes == 0 .. (S - 1)

\* uint_type(w << k), 0 <= k < S
WordShl(w, k) == {b + k : b \in w} \cap AllOnes

\* uint_type(w >> k), 0 <= k <= S; k = S is defined only for a promoted operand
WordShr(w, k, ub) ==
    IF k < S \/ PromotedToInt(S)
    THEN {b - k : b \in {c \in w : c >= k}}
    ELSE IF ub = "masked" THEN w ELSE {}

Min(w) == CHOOSE b \in w : \A c \in w : b <= c

\* --w on an unsigned word: wraps to the maximum at zero
WordDec(w) == IF w = {} THEN AllOnes ELSE (w \ {Min(w)}) \cup (0 .. (Min(w) - 1))

\* __builtin_popcountll
builtin_popcount(w) == Cardinality(w)

----------------------------------------------------------------------------
(* Storage *)

\* storage_type().size()
W == (N + S - 1) \div S

Zeroes == [i \in 0 .. (W - 1) |-> {}]

\* uint_n(), value-initialised
CtorDefault == Zeroes

\* explicit uint_n(uint_type x): bits(), bits.back() = x
CtorWord(x) == [Zeroes EXCEPT ![W - 1] = x]

\* the arguments stored least significant word first
CtorWordsReversed(a) == [i \in 0 .. (W - 1) |-> a[W - i]]

\* uint_n(Args... args): bits{{args...}}, sizeof...(Args) == W > 1
CtorWords(a) == [i \in 0 .. (W - 1) |-> a[i + 1]]

----------------------------------------------------------------------------
(* Member functions *)

RECURSIVE ShlLoopKeep(_, _, _, _)
ShlLoopKeep(b, pos, ub, i) ==
    IF i >= W THEN b
    ELSE LET upper == pos \div S
             lower == upper + 1
             shift == pos % S
         IN  IF i + upper < W
             THEN LET b1 == [b EXCEPT ![i] = WordShl(b[i + upper], shift)]
                      b2 == IF i + lower < W
                            THEN [b1 EXCEPT ![i] = b1[i] \cup WordShr(b1[i + lower], S - shift, ub)]
                            ELSE b1
                  IN  ShlLoopKeep(b2, pos, ub, i + 1)
             ELSE ShlLoopKeep(b, pos, ub, i + 1)

\* operator<<= without the bits[i] = 0 of its else branch
ShiftLeftAssignKeep(b, pos, ub) == ShlLoopKeep(b, pos, ub, 0)

\* the loop of operator<<=, from index i on, updating b in place
RECURSIVE ShlLoop(_, _, _, _)
ShlLoop(b, pos, ub, i) ==
    IF i >= W THEN b
    ELSE LET upper == pos \div S
             lower == upper + 1
             shift == pos % S
         IN  IF i + upper < W
             THEN LET b1 == [b EXCEPT ![i] = WordShl(b[i + upper], shift)]
                      b2 == IF i + lower < W
                            THEN [b1 EXCEPT ![i] = b1[i] \cup WordShr(b1[i + lower], S - shift, ub)]
                            ELSE b1
                  IN  ShlLoop(b2, pos, ub, i + 1)
             ELSE ShlLoop([b EXCEPT ![i] = {}], pos, ub, i + 1)

\* uint_n& operator<<=(size_t pos)
ShiftLeftAssign(b, pos, ub) == ShlLoop(b, pos, ub, 0)

\* operator&= reading rhs.bits[0] for every word
AndAssignFirstWord(b, r) == [i \in 0 .. (W - 1) |-> b[i] \cap r[0]]

\* uint_n& operator&=(const uint_n& rhs)
AndAssign(b, r) == [i \in 0 .. (W - 1) |-> b[i] \cap r[i]]

\* uint_n operator&(const uint_n& rhs) const: uint_n(*this) &= rhs
And(b, r) == AndAssign(b, r)

\* operator-- that stops at the first word whether or not it was zero
PreDecrementNoBorrow(b) == [b EXCEPT ![W - 1] = WordDec(b[W - 1])]

\* the loop of operator--, from index i down; i = -1 stands for size_t(0) - 1
RECURSIVE DecLoop(_, _)
DecLoop(b, i) ==
    IF i = -1 THEN b
    ELSE IF b[i] # {}
         THEN [b EXCEPT ![i] = WordDec(b[i])]
         ELSE DecLoop([b EXCEPT ![i] = WordDec(b[i])], i - 1)

\* uint_n& operator--()
PreDecrement(b) == DecLoop(b, W - 1)

RECURSIVE PopLoop(_, _)
PopLoop(b, i) == IF i >= W THEN 0 ELSE builtin_popcount(b[i]) + PopLoop(b, i + 1)

\* friend size_t popcount(const uint_n& x)
popcount(x) ==
    LET first == IF N % S # 0 THEN N % S ELSE S
        head  == IF first = S
                 THEN 0
                 ELSE builtin_popcount((0 .. (first - 1)) \cap x[0])
    IN  head + PopLoop(x, 1)

\* bool test(size_t pos) const
test(b, pos) ==
    LET local_pos  == pos % S
        global_pos == pos \div S
    IN  b[W - global_pos - 1] \cap {local_pos} # {}

\* set indexing the storage from the least significant end
SetForward(b, pos) ==
    LET local_pos  == pos % S
        global_pos == pos \div S
    IN  [b EXCEPT ![global_pos] = @ \cup {local_pos}]

\* void set(size_t pos)
set(b, pos) ==
    LET local_pos  == pos % S
        global_pos == pos \div S
    IN  [b EXCEPT ![W - global_pos - 1] = @ \cup {local_pos}]

\* unset without the complement: keeps only the addressed bit of the word
UnsetNoComplement(b, pos) ==
    LET local_pos  == pos % S
        global_pos == pos \div S
    IN  [b EXCEPT ![W - global_pos - 1] = @ \cap {local_pos}]

\* void unset(size_t pos)
unset(b, pos) ==
    LET local_pos  == pos % S
        global_pos == pos \div S
    IN  [b EXCEPT ![W - global_pos - 1] = @ \cap (AllOnes \ {local_pos})]

----------------------------------------------------------------------------
(* The logical value and the reference N-bit integer *)

\* the positions of [0, N) that test reports set
Logical(b) == {p \in 0 .. (N - 1) : test(b, p)}

RefShl(v, pos) == {p + pos : p \in v} \cap (0 .. (N - 1))
RefDec(v) == IF v = {} THEN 0 .. (N - 1) ELSE (v \ {Min(v)}) \cup (0 .. (Min(v) - 1))

RECURSIVE Pow2(_)
Pow2(k) == IF k = 0 THEN 1 ELSE 2 * Pow2(k - 1)

RECURSIVE Value(_)
Value(v) == IF v = {} THEN 0 ELSE LET p == Min(v) IN Pow2(p) + Value(v \ {p})

----------------------------------------------------------------------------
(* Inputs explored *)

\* the meaningful bits of word 0: N % S, or S when that is zero
First(n, s) == IF n % s # 0 THEN n % s ELSE s

\* widths with 1, 2 or S meaningful bits in word 0, for every storage size
Widths(s) == {n \in 1 .. (MaxWords * s) : First(n, s) \in {1, 2, s}}

\* the words of the W * S stored bits v, most significant word first
Pack(v) == [i \in 0 .. (W - 1) |-> {p - (W - 1 - i) * S : p \in {q \in v : q \div S = W - 1 - i}}]

\* stored patterns given to the W-word constructor: every stored bit, every
\* logical bit, only padding, a zero low word under non-zero high words,
\* stripes, the top logical bit
Patterns ==
    { 0 .. (W * S - 1), 0 .. (N - 1), N .. (W * S - 1), S .. (W * S - 1),
      {p \in 0 .. (W * S - 1) : p % 3 = 0}, {N - 1} }

SampleValues == {Pack(v) : v \in Patterns}

\* words given to the one-word constructor
SampleWords == { {}, {0}, AllOnes, {b \in AllOnes : b % 3 = 0} }

\* right operands of & and &=: every logical bit, stripes, both ends
SampleRhs == {Pack(v) : v \in { 0 .. (N - 1), {p \in 0 .. (W * S - 1) : p % 3 = 0}, {0, N - 1} }}

\* shift amounts: none, one bit, a whole word, a word and a bit, the largest
\* amount below N, N itself, and the whole storage
ShiftAmounts == {0, 1, S, S + 1, N - 1, N, W * S}

\* bit positions: both ends of the least significant word, the low end of the
\* next word, and the top logical bit
BitPositions == {0, S - 1, S, N - 1} \cap (0 .. (N - 1))

----------------------------------------------------------------------------
(* Construction *)

Init ==
    \E s \in WordTypes : \E n \in Widths(s) :
        /\ S = s
        /\ N = n
        /\ \/ /\ op = "ctor"
              /\ args = <<>>
              /\ bits = CtorDefault
           \/ \E x \in SampleWords :
                 /\ op = "ctor_word"
                 /\ args = <<x>>
                 /\ bits = CtorWord(x)
           \/ \E v \in SampleValues :
                 /\ W > 1
                 /\ op = "ctor_words"
                 /\ args = [i \in 1 .. W |-> v[i - 1]]
                 /\ bits = CtorWords(args)
        /\ arg = 0
        /\ rhs = <<>>
        /\ pre = bits
        /\ ret = <<>>
        /\ undo = <<>>
        /\ ref = Logical(bits)
        /\ steps = 0

----------------------------------------------------------------------------
(* Calls *)

Called(name, pos, r) ==
    /\ steps < MaxOps
    /\ steps' = steps + 1
    /\ op' = name
    /\ arg' = pos
    /\ rhs' = r
    /\ pre' = bits
    /\ UNCHANGED <<S, N, args>>

\* operator<<= evaluates bits[i + lower] >> S, a shift by the operand's full
\* width, when shift is 0 and some i + lower is in bounds; the outcome is the
\* build's where the operand is not promoted to a wider int
ShiftOutcomes(pos) ==
    IF pos % S = 0 /\ pos \div S + 1 < W /\ ~PromotedToInt(S) THEN UBOutcomes ELSE {"zero"}

\* x <<= pos
ShiftLeft ==
    \E pos \in ShiftAmounts : \E ub \in ShiftOutcomes(pos) :
        /\ Called("shl", pos, <<>>)
        /\ bits' = ShiftLeftAssign(bits, pos, ub)
        /\ ref' = RefShl(ref, pos)
        /\ ret' = <<>>
        /\ undo' = <<>>

\* x &= y
BitAndAssign ==
    \E y \in SampleRhs :
        /\ Called("and_assign", 0, y)
        /\ bits' = AndAssign(bits, y)
        /\ ref' = ref \cap Logical(y)
        /\ ret' = <<>>
        /\ undo' = <<>>

\* x & y
BitAnd ==
    \E y \in SampleRhs :
        /\ Called("and", 0, y)
        /\ ret' = And(bits, y)
        /\ UNCHANGED <<bits, ref>>
        /\ undo' = <<>>

\* --x
Decrement ==
    /\ Called("dec", 0, <<>>)
    /\ bits' = PreDecrement(bits)
    /\ ref' = RefDec(ref)
    /\ ret' = <<>>
    /\ undo' = <<>>

\* popcount(x)
Popcount ==
    /\ Called("popcount", 0, <<>>)
    /\ ret' = popcount(bits)
    /\ UNCHANGED <<bits, ref>>
    /\ undo' = <<>>

\* x.test(pos)
Test ==
    \E pos \in BitPositions :
        /\ Called("test", pos, <<>>)
        /\ ret' = test(bits, pos)
        /\ UNCHANGED <<bits, ref>>
        /\ undo' = <<>>

\* x.set(pos)
Set ==
    \E pos \in BitPositions :
        /\ Called("set", pos, <<>>)
        /\ bits' = set(bits, pos)
        /\ ref' = ref \cup {pos}
        /\ ret' = <<>>
        /\ undo' = <<>>

\* x.unset(pos)
Unset ==
    \E pos \in BitPositions :
        /\ Called("unset", pos, <<>>)
        /\ bits' = unset(bits, pos)
        /\ ref' = ref \ {pos}
        /\ ret' = <<>>
        /\ undo' = IF op = "set" /\ arg = pos THEN <<pre>> ELSE <<>>

Next ==
    \/ ShiftLeft
    \/ BitAndAssign
    \/ BitAnd
    \/ Decrement
    \/ Popcount
    \/ Test
    \/ Set
    \/ Unset

Spec == Init /\ [][Next]_vars

----------------------------------------------------------------------------
(* Properties *)

\* the word and the bit of the storage that position pos addresses
WordOf(pos) == W - 1 - (pos \div S)
BitOf(pos) == pos % S

\* C1: popcount(x) is the number of positions pos in [0, N) for which
\* x.test(pos) is true, whatever the width, the word size and the padding bits.
C1_PopcountCountsLogicalBits ==
    op = "popcount" => ret = Cardinality(Logical(bits))

\* C2: after x <<= pos with 0 <= pos < N, test(p) is true iff p >= pos and
\* bit p - pos of the value before the shift was set, for every p in [0, N).
C2_ShiftLeftMovesBits ==
    (op = "shl" /\ arg < N) =>
        \A p \in 0 .. (N - 1) : test(bits, p) <=> (p >= arg /\ test(pre, p - arg))

\* C3: --x subtracts 1 modulo 2^N from the logical value, the borrow rippling
\* from the last word toward word 0; decrementing logical zero sets all N bits.
C3_DecrementIsMinusOne ==
    op = "dec" =>
        /\ Logical(bits) = RefDec(Logical(pre))
        /\ N <= 16 => Value(Logical(bits)) = (Value(Logical(pre)) - 1) % Pow2(N)
        /\ Logical(pre) = {} => Logical(bits) = 0 .. (N - 1)
        /\ \A i \in 0 .. (W - 1) :
              bits[i] # pre[i] <=> \A j \in (i + 1) .. (W - 1) : pre[j] = {}

C3_Witness ==
    /\ op = "dec"
    /\ W = 2
    /\ pre[1] = {}
    /\ Logical(pre) # {}
    /\ bits[1] = AllOnes
    /\ bits[0] # pre[0]

\* C4: set(pos) makes test(pos) true, unset(pos) makes it false, and each
\* changes at most bit pos % S of word W - 1 - pos / S: every other position,
\* every other word and the padding bits are as before.
C4_SetUnsetFrame ==
    /\ op = "set" =>
          /\ test(bits, arg)
          /\ \A q \in (0 .. (N - 1)) \ {arg} : test(bits, q) = test(pre, q)
          /\ bits = [pre EXCEPT ![WordOf(arg)] = @ \cup {BitOf(arg)}]
    /\ op = "unset" =>
          /\ ~test(bits, arg)
          /\ \A q \in (0 .. (N - 1)) \ {arg} : test(bits, q) = test(pre, q)
          /\ bits = [pre EXCEPT ![WordOf(arg)] = @ \ {BitOf(arg)}]

C4_Witness ==
    /\ op = "set"
    /\ W = 2
    /\ arg = 0
    /\ ~test(pre, arg)
    /\ pre[0] # {}
    /\ bits[1] = pre[1] \cup {0}
    /\ bits[0] = pre[0]

\* C5: after x <<= pos with pos >= N, inside the storage or past it, test(p)
\* is false for every p in [0, N).
C5_ShiftByWidthOrMoreIsZero ==
    (op = "shl" /\ arg >= N) => Logical(bits) = {}

C5_WitnessPastStorage ==
    /\ op = "shl"
    /\ arg >= N
    /\ arg >= W * S
    /\ Logical(pre) # {}
    /\ bits = Zeroes

C5_WitnessInsideStorage ==
    /\ op = "shl"
    /\ arg >= N
    /\ arg < W * S
    /\ Logical(pre) # {}
    /\ bits # Zeroes
    /\ Logical(bits) = {}

\* C6: after x <<= pos with pos a multiple of the word width, every word i is
\* the former word i + pos / S, or zero when that index is out of bounds; a
\* shift by 0 leaves every stored word as it was.
C6_WordMultipleShiftCopiesWords ==
    (op = "shl" /\ arg % S = 0) =>
        \A i \in 0 .. (W - 1) :
            bits[i] = IF i + arg \div S < W THEN pre[i + arg \div S] ELSE {}

\* C7: x & y and y & x have the same storage, every word of it is the AND of
\* the operands' words, every logical bit is the AND of the operands' bits, the
\* pure form leaves x unchanged and equals what &= stores.
C7_AndWordwiseCommutative ==
    /\ op = "and" =>
          /\ ret = And(rhs, pre)
          /\ \A i \in 0 .. (W - 1) : ret[i] = pre[i] \cap rhs[i]
          /\ \A pos \in 0 .. (N - 1) : test(ret, pos) = (test(pre, pos) /\ test(rhs, pos))
          /\ bits = pre
          /\ ret = AndAssign(pre, rhs)
    /\ op = "and_assign" =>
          /\ bits = AndAssign(rhs, pre)
          /\ \A i \in 0 .. (W - 1) : bits[i] = pre[i] \cap rhs[i]
          /\ \A pos \in 0 .. (N - 1) : test(bits, pos) = (test(pre, pos) /\ test(rhs, pos))

C7_Witness ==
    /\ op = "and"
    /\ W = 2
    /\ ret # pre
    /\ ret # rhs
    /\ ret[0] # {}
    /\ ret[1] # {}
    /\ ret[0] # ret[1]

\* C8: after construction from W words written most significant first, or
\* from one word placed last under zero words, test(pos) is bit pos % S of the
\* argument for word W - 1 - pos / S, for every pos in [0, N); position 0 is
\* the lowest bit of the last word and position N - 1 is bit first - 1 of word 0.
C8_ConstructorRoundTrip ==
    /\ op = "ctor_words" =>
          \A pos \in 0 .. (N - 1) : test(bits, pos) = (BitOf(pos) \in args[WordOf(pos) + 1])
    /\ op = "ctor_word" =>
          \A pos \in 0 .. (N - 1) : test(bits, pos) = (pos < S /\ pos \in args[1])
    /\ op = "ctor" => Logical(bits) = {}
    /\ op \in {"ctor", "ctor_word", "ctor_words"} =>
          /\ test(bits, 0) = (0 \in bits[W - 1])
          /\ test(bits, N - 1) = (First(N, S) - 1 \in bits[0])
          /\ \A pos \in 0 .. (N - 1) : WordOf(pos) = 0 => BitOf(pos) < First(N, S)

C8_Witness ==
    /\ op = "ctor_words"
    /\ W = 2
    /\ args[1] # args[2]
    /\ args[1] \ (0 .. (First(N, S) - 1)) # {}
    /\ test(bits, N - 1)
    /\ ~test(bits, 1)
    /\ test(bits, 0)

\* C9 as stated: set(pos) then unset(pos) leaves test(pos) as it was before
\* the two calls, and every other position unchanged.
C9_SetUnsetRestoresBit ==
    undo # <<>> =>
        /\ test(bits, arg) = test(undo[1], arg)
        /\ \A q \in (0 .. (N - 1)) \ {arg} : test(bits, q) = test(undo[1], q)

\* C9 amended: set(pos) then unset(pos) leaves bit pos clear, which is the
\* original bit exactly when it was clear before; every other position, and
\* every other stored bit, is unchanged.
C9_SetUnsetClearsBit ==
    undo # <<>> =>
        /\ ~test(bits, arg)
        /\ test(bits, arg) = test(undo[1], arg) <=> ~test(undo[1], arg)
        /\ \A q \in (0 .. (N - 1)) \ {arg} : test(bits, q) = test(undo[1], q)
        /\ bits = [undo[1] EXCEPT ![WordOf(arg)] = @ \ {BitOf(arg)}]

C9_Witness ==
    /\ undo # <<>>
    /\ op = "unset"
    /\ test(undo[1], arg)
    /\ test(pre, arg)
    /\ ~test(bits, arg)

\* C10: after any sequence of calls the bits test reads in [0, N) are those of
\* a reference N-bit integer put through the same calls.
C10_LogicalMatchesReference ==
    Logical(bits) = ref

====
